---- MODULE Spec2Model ----
(***************************************************************************)
(* A model of cfn_lambda_handler.py: the cfn_handler decorator, which      *)
(* turns a user function into a CloudFormation custom-resource handler,    *)
(* and the Handler class, which routes a request to the user function      *)
(* registered for its kind.                                                *)
(*                                                                         *)
(* A Python dict is a TLA+ function whose DOMAIN is the set of keys that   *)
(* are present.  The fields the code reads by arithmetic or comparison     *)
(* (Timeout, CreationTime: integers; the others: strings) keep their       *)
(* Python values.  The free-form fields (Data, EventState,                 *)
(* ResourceProperties, OldResourceProperties) hold tagged Python objects   *)
(* so that json.dumps(..., default=date_handler) is a conversion that      *)
(* changes the objects JSON cannot carry.                                  *)
(***************************************************************************)
EXTENDS Integers, Sequences, FiniteSets, TLC

VARIABLES
    phase,              \* "setup": module initialisation; "serving": requests arrive
    entry,              \* the Lambda entry point: a Handler or a bare cfn_handler
    handlers,           \* Handler._handlers: the kinds a function is registered for
    base_response,      \* cfn_handler's base_response (None is the empty mapping)
    secure_attributes,  \* cfn_handler's / Handler's secure_attributes
    now,                \* int(time.time())
    ticks,              \* how many times the clock has advanced
    queue,              \* invocation payloads the platform has yet to deliver
    callbacks,          \* the HTTP PUTs made for this request chain, in order
    continued,          \* whether an invocation of the chain scheduled a continuation
    last,               \* what the most recent invocation did
    derived             \* the calls of physical_resource_id made on their own

vars == <<phase, entry, handlers, base_response, secure_attributes,
          now, ticks, queue, callbacks, continued, last, derived>>

----------------------------------------------------------------------------
(* Program constants *)

SUCCESS == "SUCCESS"
FAILED == "FAILED"
TIMEOUT == 300

(* Bounds of the model *)

StartTime == 1          \* the clock when the request is issued
MaxTicks == 2           \* how many times the clock advances
MaxRegistrations == 1   \* how many functions are registered with the Handler

----------------------------------------------------------------------------
(* Python dicts *)

EmptyDict == <<>>

\* dict.update: the argument's entries win
DictUpdate(d, other) == other @@ d

\* d[k] = v
DictSet(d, k, v) == (k :> v) @@ d

\* d.pop(k, None)
DictPop(d, k) == [j \in DOMAIN d \ {k} |-> d[j]]

----------------------------------------------------------------------------
(* Python objects held in the free-form fields *)

PyStr(s) == [type |-> "str", s |-> s]
PyDict(items) == [type |-> "dict", items |-> items]
PyDatetime(iso) == [type |-> "datetime", iso |-> iso]
PyBytes(text) == [type |-> "bytes", utf8 |-> text]
PyInt(n) == [type |-> "int", n |-> n]

\* bool(obj)
Truthy(obj) ==
    CASE obj.type = "str" -> obj.s # ""
      [] obj.type = "int" -> obj.n # 0
      [] obj.type = "dict" -> DOMAIN obj.items # {}
      [] OTHER -> TRUE

date_handler(obj) ==
    IF obj.type = "datetime" THEN PyStr(obj.iso)
    ELSE IF obj.type = "bytes" THEN PyStr(obj.utf8)
    ELSE PyStr("<object>")

\* What json.dumps(obj, default=date_handler) carries of one object: strings,
\* integers and dicts as they are (the dict's values converted), anything else as the
\* string date_handler makes of it.
RECURSIVE JsonValue(_)
JsonValue(obj) ==
    IF obj.type \in {"str", "int"} THEN obj
    ELSE IF obj.type = "dict"
        THEN PyDict([k \in DOMAIN obj.items |-> JsonValue(obj.items[k])])
    ELSE date_handler(obj)

FreeFormFields == {"Data", "EventState", "ResourceProperties", "OldResourceProperties"}

\* json.dumps(d, default=date_handler) of an envelope
JsonDumps(d) ==
    [k \in DOMAIN d |-> IF k \in FreeFormFields THEN JsonValue(d[k]) ELSE d[k]]


----------------------------------------------------------------------------
(* The module's functions *)

\* md5(...).hexdigest() of the concatenation: the digest is kept as its input
\* string, so two inputs have one digest exactly when they are one string.
physical_resource_id(stack_id, resource_id) == "md5:" \o stack_id \o resource_id

\* invoke(event, context): the event is marked as a Poll event before the
\* platform is called, and the payload is the JSON text of that event.
\* invoke without its first statement: the payload is not marked as a Poll event
MarkPoll_skip(event) == event

MarkPoll(event) == DictSet(event, "EventStatus", "Poll")

invoke(event) == JsonDumps(MarkPoll(event))

\* sanitize raises AttributeError when Data is truthy and has no .items()
SanitizeRaises(response) ==
    /\ "Data" \in DOMAIN response
    /\ Truthy(response.Data)
    /\ response.Data.type # "dict"

\* sanitize without the masking: the log line is the response as transmitted
sanitize_plain(response, secure) == JsonDumps(response)


sanitize(response, secure) ==
    IF "Data" \in DOMAIN response /\ Truthy(response.Data)
    THEN JsonDumps(DictSet(response, "Data",
            PyDict([k \in DOMAIN response.Data.items |->
                        IF k \in secure THEN PyStr("*******")
                        ELSE response.Data.items[k]])))
    ELSE JsonDumps(response)

----------------------------------------------------------------------------
(* cfn_handler.decorator, statement by statement *)

BaseEnvelope(event) ==
    [StackId |-> event.StackId,
     RequestId |-> event.RequestId,
     LogicalResourceId |-> event.LogicalResourceId,
     Status |-> SUCCESS]

\* describe_stacks either raises or returns a list of stacks; the first stack
\* decides, each of its two fields defaulting to UNKNOWN.
StackStatusOf(ds) ==
    IF ds.ok /\ Len(ds.stacks) > 0
    THEN LET stack == ds.stacks[1]
         IN  <<IF "StackStatus" \in DOMAIN stack THEN stack.StackStatus ELSE "UNKNOWN",
               IF "StackStatusReason" \in DOMAIN stack
                   THEN stack.StackStatusReason ELSE "UNKNOWN">>
    ELSE <<"UNKNOWN", "UNKNOWN">>

\* The enrichment without its test of the request type
Enrich_any(event, ds) ==
    LET cfn_status == StackStatusOf(ds)
    IN  DictSet(DictSet(event, "StackStatus", cfn_status[1]),
                "StackStatusReason", cfn_status[2])


Enrich(event, ds) ==
    IF event.RequestType \in {"Update", "Delete"}
    THEN LET cfn_status == StackStatusOf(ds)
         IN  DictSet(DictSet(event, "StackStatus", cfn_status[1]),
                     "StackStatusReason", cfn_status[2])
    ELSE event

\* The identifier always derived, a supplied one ignored
ResolvePhysicalId_derive(event) ==
    physical_resource_id(event.StackId, event.LogicalResourceId)


ResolvePhysicalId(event) ==
    IF "PhysicalResourceId" \in DOMAIN event /\ event.PhysicalResourceId # ""
    THEN event.PhysicalResourceId
    ELSE physical_resource_id(event.StackId, event.LogicalResourceId)

\* base_response merged under the base envelope: the envelope's fields win
WithBase_under(response, base) ==
    IF DOMAIN base # {} THEN DictUpdate(base, response) ELSE response


\* if base_response: response.update(base_response)
WithBase(response, base) ==
    IF DOMAIN base # {} THEN DictUpdate(response, base) ELSE response

\* event.get('CreationTime') or int(time.time())
CreationTimeOf(event, t) ==
    IF "CreationTime" \in DOMAIN event /\ event.CreationTime # 0
    THEN event.CreationTime ELSE t

\* event.get('Timeout') or TIMEOUT
EffectiveTimeout(event) ==
    IF "Timeout" \in DOMAIN event /\ event.Timeout # 0
    THEN event.Timeout ELSE TIMEOUT

\* if timeout: finish = event['CreationTime'] + timeout; int(time.time()) > finish
Expired(event, timeout, t) ==
    timeout # 0 /\ t > event.CreationTime + timeout

\* The deadline failure without its Status
TimeoutFailure_statusless(timeout) ==
    [Reason |-> "The custom resource operation failed to complete within the user specified timeout of "
                \o ToString(timeout) \o " seconds"]


TimeoutFailure(timeout) ==
    [Status |-> FAILED,
     Reason |-> "The custom resource operation failed to complete within the user specified timeout of "
                \o ToString(timeout) \o " seconds"]

\* The failure of invoke reported as any other failure of the function
InvokeFailure_generic ==
    [Status |-> FAILED,
     Reason |-> "Exception was raised while handling custom resource"]


InvokeFailure ==
    [Status |-> FAILED,
     Reason |-> "Failed to invoke new Lambda function after maximum Lambda execution timeout"]

HandlerFailure ==
    [Status |-> FAILED,
     Reason |-> "Exception was raised while handling custom resource"]

\* The empty function with a reason that does not name the request type
empty_generic(event) ==
    [Status |-> FAILED, Reason |-> "No handler defined"]

\* Handler._empty's function
empty(event) ==
    [Status |-> FAILED,
     Reason |-> "No handler defined for request type " \o event.RequestType]

\* func(event, context): the empty function as written, a user function as
\* the behaviour h chosen for this call.
CallFunc(func, h, event) ==
    IF func = "empty" THEN [kind |-> "return", value |-> empty(event)]
    ELSE IF h.kind = "return_event" THEN [kind |-> "return", value |-> event]
    ELSE h

\* The pops of lines 133-141 without the one of ResourceType
StripFields_short ==
    <<"ResourceProperties", "OldResourceProperties", "ServiceToken", "ResponseURL",
      "RequestType", "CreationTime", "StackStatus", "StackStatusReason">>

StripFields ==
    <<"ResourceProperties", "OldResourceProperties", "ServiceToken", "ResponseURL",
      "RequestType", "CreationTime", "ResourceType", "StackStatus", "StackStatusReason">>

RECURSIVE PopAll(_, _)
PopAll(d, keys) ==
    IF keys = <<>> THEN d ELSE PopAll(DictPop(d, Head(keys)), Tail(keys))

Strip(response) == PopAll(response, StripFields)


\* callback(url, data): one requests.put; an HTTPError and a RequestException
\* are logged and swallowed.
\* callback with a second attempt when the first PUT fails
callback_retry(url, data, put) ==
    IF put = "ok" THEN <<[url |-> url, data |-> data, result |-> put]>>
    ELSE <<[url |-> url, data |-> data, result |-> put],
           [url |-> url, data |-> data, result |-> put]>>


callback(url, data, put) == <<[url |-> url, data |-> data, result |-> put]>>

\* The try statement without its "else: return": the decorator goes on to the
\* callback after a successful invoke.
ReturnsAfterInvoke_never(invoke_ok) == FALSE

\* Lines 124-125: after a successful invoke the decorator returns at once
ReturnsAfterInvoke(invoke_ok) == invoke_ok

\* The try statement of lines 99-131.  The result says whether the decorator
\* returned at line 125 (scheduled is then the payload handed to the platform)
\* and otherwise the response as it stands at line 132.
TryBlock(func, h, event, response, t, invoke_ok) ==
    LET timeout == EffectiveTimeout(event)
        expired == Expired(event, timeout, t)
        result == IF expired THEN [kind |-> "not_called"] ELSE CallFunc(func, h, event)
        stated == DictSet(event, "EventState", result.state)  \* line 116
        polled == MarkPoll(stated)
        common == [created |-> event.CreationTime,
                   timeout |-> timeout, expired |-> expired,
                   calls |-> IF expired THEN 0 ELSE 1,
                   behaviour |-> IF expired THEN [kind |-> "not_called"]
                                 ELSE IF func = "empty" THEN result ELSE h]
    IN  CASE expired ->
                common @@ [returned |-> FALSE, event |-> event, scheduled |-> <<>>,
                           response |-> DictUpdate(response, TimeoutFailure(timeout))]
          [] ~expired /\ result.kind = "return" ->
                common @@ [returned |-> FALSE, event |-> event, scheduled |-> <<>>,
                           response |-> DictUpdate(response, result.value)]
          [] ~expired /\ result.kind = "raise_timeout" /\ invoke_ok ->
                common @@ [returned |-> ReturnsAfterInvoke(invoke_ok), event |-> polled,
                           scheduled |-> <<invoke(stated)>>,
                           response |-> response]
          [] ~expired /\ result.kind = "raise_timeout" /\ ~invoke_ok ->
                common @@ [returned |-> FALSE, event |-> polled, scheduled |-> <<>>,
                           response |-> DictUpdate(response, InvokeFailure)]
          [] ~expired /\ result.kind = "return_pairs" ->
                \* dict.update merges the pairs in order until one is rejected
                common @@ [returned |-> FALSE, event |-> event, scheduled |-> <<>>,
                           response |-> DictUpdate(DictUpdate(response, result.merged),
                                                   HandlerFailure)]
          [] OTHER ->   \* the function raised, or returned what dict.update rejects
                common @@ [returned |-> FALSE, event |-> event, scheduled |-> <<>>,
                           response |-> DictUpdate(response, HandlerFailure)]

\* Lines 132-145: strip, serialize, sanitize for the log line, call back.  An
\* exception of sanitize leaves the decorator before the callback.
Deliver(event, response, secure, put) ==
    LET stripped == Strip(response)
        serialized == JsonDumps(stripped)
    IN  IF SanitizeRaises(stripped)
        THEN [outcome |-> "raised", logged |-> <<>>, puts |-> <<>>]
        ELSE [outcome |-> "callback",
              logged |-> <<sanitize(stripped, secure)>>,
              puts |-> callback(event.ResponseURL, serialized, put)]

\* The event as it stands at line 98, which is the event func is called with:
\* the stack status set for an Update and a Delete, the CreationTime set.
HandlerEvent(received, t, ds) ==
    LET enriched == Enrich(received, ds)
    IN  DictSet(enriched, "CreationTime", CreationTimeOf(enriched, t))

\* One call of the function cfn_handler returns, at time t, with the outcomes
\* of the calls it makes: ds of describe_stacks, h of the user function,
\* invoke_ok of the Lambda invoke, put of the HTTP PUT.  The result is what
\* the call did: the function it wrapped, whether and how that function was
\* called, how the call ended (a callback, a continuation, an exception),
\* the payload it scheduled, the line it logged and the PUT it made.
decorator(func, base, secure, received, t, ds, h, invoke_ok, put) ==
    LET enriched == Enrich(received, ds)
        response == WithBase(DictSet(BaseEnvelope(received), "PhysicalResourceId",
                                     ResolvePhysicalId(enriched)), base)
        event == HandlerEvent(received, t, ds)
        try == TryBlock(func, h, event, response, t, invoke_ok)
        trace == [func |-> func, created |-> try.created,
                  timeout |-> try.timeout, expired |-> try.expired,
                  calls |-> try.calls, behaviour |-> try.behaviour,
                  scheduled |-> try.scheduled]
    IN  IF try.returned
        THEN trace @@ [outcome |-> "continued", logged |-> <<>>, puts |-> <<>>]
        ELSE trace @@ Deliver(try.event, try.response, secure, put)

----------------------------------------------------------------------------
(* Handler *)

Kinds == {"Create", "Update", "Delete", "Poll"}

\* request = event.get('EventStatus') or event['RequestType']
Resolve(event) ==
    IF "EventStatus" \in DOMAIN event /\ event.EventStatus # ""
    THEN event.EventStatus ELSE event.RequestType

\* self._handlers.get(request, self._empty()): the function that is wrapped
Lookup(registered, request) ==
    IF request \in registered THEN request ELSE "empty"

\* The secure_attributes the function was wrapped with: create, update, delete
\* and poll pass the Handler's, _empty passes none.
SecureOf(func, secure) == IF func = "empty" THEN {} ELSE secure

----------------------------------------------------------------------------
(* The inputs *)

Opt(k, values) == {EmptyDict} \cup {k :> v : v \in values}

Properties == PyDict([Name |-> PyStr("bucket")])

\* The orchestrator's requests: a Create has no PhysicalResourceId yet, an
\* Update and a Delete carry the resource's, an Update the old properties.
RequestsOf(type) ==
    {[RequestType |-> type, StackId |-> "stack", RequestId |-> "req",
      LogicalResourceId |-> "res", ResponseURL |-> "https://cfn/response",
      ServiceToken |-> "arn:lambda", ResourceType |-> "Custom::Thing",
      ResourceProperties |-> Properties]
     @@ old @@ status @@ physical @@ timeout @@ created :
        old \in IF type = "Update" THEN {[OldResourceProperties |-> Properties]}
                ELSE {EmptyDict},
        status \in Opt("EventStatus", {"Poll", "Update"}),
        physical \in IF type = "Create" THEN {EmptyDict}
                     ELSE {[PhysicalResourceId |-> "phys-1"]},
        timeout \in Opt("Timeout", {0, 1}),
        created \in Opt("CreationTime", {0, 1})}

Requests == UNION {RequestsOf(type) : type \in {"Create", "Update", "Delete"}}

States == {PyDict([step |-> PyInt(2)]), PyDatetime("2020-01-01T00:00:00")}

Returns ==
    {[Data |-> PyDict([password |-> PyStr("x"), name |-> PyStr("y")])],
     [Data |-> PyStr("text")],
     [PhysicalResourceId |-> "phys-2", Status |-> FAILED, Reason |-> "refused"]}

\* What dict.update has merged of a returned sequence of pairs when it meets
\* the element that is not a pair and raises TypeError
MergedPairs == {[Data |-> PyDict([name |-> PyStr("y")])]}

Behaviours ==
    {[kind |-> "return", value |-> v] : v \in Returns}
    \cup {[kind |-> "return_event"], [kind |-> "return_none"]}
    \cup {[kind |-> "return_pairs", merged |-> m] : m \in MergedPairs}
    \cup {[kind |-> "raise_timeout", state |-> st] : st \in States}
    \cup {[kind |-> "raise_error", detail |-> d] : d \in {"KeyError", "ValueError"}}

DescribeOutcomes ==
    {[ok |-> FALSE, stacks |-> <<>>],
     [ok |-> TRUE, stacks |-> <<[StackStatus |-> "UPDATE_IN_PROGRESS"]>>]}

PutOutcomes == {"ok", "http_error", "unreachable"}

BaseResponses ==
    {[Status |-> FAILED, Reason |-> "base", ResourceType |-> "Custom::Base",
      PhysicalResourceId |-> "phys-base"]}

SecureSets == {{"password"}}

----------------------------------------------------------------------------
(* The state machine *)

NoInvocation ==
    [func |-> "none", created |-> 0, timeout |-> 0, expired |-> FALSE, calls |-> 0,
     behaviour |-> [kind |-> "not_called"], scheduled |-> <<>>,
     outcome |-> "none", logged |-> <<>>, puts |-> <<>>]

Init ==
    /\ phase = "setup"
    /\ entry \in {"Handler", "cfn_handler"}
    /\ handlers = {}
    /\ base_response \in IF entry = "Handler" THEN {EmptyDict} ELSE BaseResponses
    /\ secure_attributes \in SecureSets
    /\ now = StartTime
    /\ ticks = 0
    /\ queue = <<>>
    /\ callbacks = <<>>
    /\ continued = FALSE
    /\ last = NoInvocation
    /\ derived = {}

Register(kind) ==
    /\ phase = "setup"
    /\ entry = "Handler"
    /\ Cardinality(handlers) < MaxRegistrations
    /\ handlers' = handlers \cup {kind}
    /\ UNCHANGED <<phase, entry, base_response, secure_attributes,
                   now, ticks, queue, callbacks, continued, last, derived>>

create == Register("Create")
update == Register("Update")
delete == Register("Delete")
poll == Register("Poll")

\* The orchestrator issues one request; the platform will invoke the function.
Request ==
    /\ phase = "setup"
    /\ phase' = "serving"
    /\ \E event \in Requests : queue' = <<event>>
    /\ UNCHANGED <<entry, handlers, base_response, secure_attributes,
                   now, ticks, callbacks, continued, last, derived>>

Tick ==
    /\ phase = "serving"
    /\ queue # <<>>
    /\ ticks < MaxTicks
    /\ \E d \in {1, TIMEOUT} : now' = now + d
    /\ ticks' = ticks + 1
    /\ UNCHANGED <<phase, entry, handlers, base_response, secure_attributes,
                   queue, callbacks, continued, last, derived>>

\* The calls an invocation makes have the outcomes the environment gives them:
\* describe_stacks is called for Update and Delete only, the user function
\* unless the deadline has passed, the Lambda invoke when the function raised
\* CfnLambdaExecutionTimeout, the HTTP PUT unless the invoke succeeded.
DescribeOutcomesFor(event) ==
    IF event.RequestType \in {"Update", "Delete"} THEN DescribeOutcomes
    ELSE {[ok |-> FALSE, stacks |-> <<>>]}

BehavioursFor(func, event, t) ==
    IF \/ func = "empty"
       \/ LET created == DictSet(event, "CreationTime", CreationTimeOf(event, t))
          IN  Expired(created, EffectiveTimeout(created), t)
    THEN {[kind |-> "return", value |-> EmptyDict]}
    ELSE Behaviours

InvokeOutcomesFor(h) == IF h.kind = "raise_timeout" THEN BOOLEAN ELSE {TRUE}

PutOutcomesFor(h, invoke_ok) ==
    IF h.kind = "raise_timeout" /\ invoke_ok THEN {"ok"} ELSE PutOutcomes

\* The platform delivers the next payload to the function and the function
\* runs to its end.
Run(func, base, secure) ==
    \E ds \in DescribeOutcomesFor(Head(queue)),
       h \in BehavioursFor(func, Head(queue), now) :
        \E invoke_ok \in InvokeOutcomesFor(h) :
            \E put \in PutOutcomesFor(h, invoke_ok) :
                LET done == decorator(func, base, secure, Head(queue), now,
                                      ds, h, invoke_ok, put)
                IN  /\ last' = done
                    /\ queue' = Tail(queue) \o done.scheduled
                    /\ callbacks' = callbacks \o done.puts
                    /\ continued' = (continued \/ done.scheduled # <<>>)
                    /\ UNCHANGED <<phase, entry, handlers, base_response,
                                   secure_attributes, now, ticks, derived>>

\* Handler.__call__
Handler_call ==
    /\ phase = "serving"
    /\ entry = "Handler"
    /\ queue # <<>>
    /\ LET func == Lookup(handlers, Resolve(Head(queue)))
       IN  Run(func, EmptyDict, SecureOf(func, secure_attributes))

\* The function cfn_handler(func, base_response, secure_attributes) returns,
\* used as the Lambda entry point itself
decorator_call ==
    /\ phase = "serving"
    /\ entry = "cfn_handler"
    /\ queue # <<>>
    /\ Run("func", base_response, secure_attributes)

Next ==
    \/ create
    \/ update
    \/ delete
    \/ poll
    \/ Request
    \/ Tick
    \/ Handler_call
    \/ decorator_call

Spec == Init /\ [][Next]_vars

----------------------------------------------------------------------------
(* physical_resource_id on its own: the function is applied to pairs of a  *)
(* stack id and a logical resource id, and each call is recorded with the  *)
(* identifier it returned.                                                 *)

StackIds == {"stack", "stack1", "stack2"}

LogicalResourceIds == {"res", "1res", "2res"}

InitDerive ==
    /\ phase = "derive"
    /\ entry = "physical_resource_id"
    /\ handlers = {}
    /\ base_response = EmptyDict
    /\ secure_attributes = {}
    /\ now = StartTime
    /\ ticks = 0
    /\ queue = <<>>
    /\ callbacks = <<>>
    /\ continued = FALSE
    /\ last = NoInvocation
    /\ derived = {}

Derive ==
    /\ phase = "derive"
    /\ \E stack_id \in StackIds, resource_id \in LogicalResourceIds :
            derived' = derived \cup
                {[stack_id |-> stack_id, resource_id |-> resource_id,
                  id |-> physical_resource_id(stack_id, resource_id)]}
    /\ UNCHANGED <<phase, entry, handlers, base_response, secure_attributes,
                   now, ticks, queue, callbacks, continued, last>>

NextDerive == Derive

SpecDerive == InitDerive /\ [][NextDerive]_vars


----------------------------------------------------------------------------
(* What the claims speak of *)

\* An invocation has run and this is its record
Invoked == last.outcome # "none"

\* The step is one invocation of the function: the platform hands it the
\* payload Head(queue) at time now.
InvocationStep == phase = "serving" /\ queue # <<>> /\ now' = now

ResponseURL == "https://cfn/response"

\* The response envelopes delivered to the orchestrator for this chain
Delivered == {callbacks[i].data : i \in 1..Len(callbacks)}

----------------------------------------------------------------------------
(* C1 *)

\* C1: one invocation ends either with exactly one callback delivery attempt
\* to ResponseURL and no continuation scheduled, or with one continuation
\* scheduled and no callback delivery attempt; never with neither, with both
\* or with more than one callback attempt.
C1_OneCallbackOrOneContinuation ==
    Invoked =>
        \/ /\ Len(last.puts) = 1
           /\ last.puts[1].url = ResponseURL
           /\ last.scheduled = <<>>
        \/ /\ Len(last.scheduled) = 1
           /\ last.puts = <<>>

----------------------------------------------------------------------------
(* C2 *)

\* C2: across the chain of invocations one request starts, at most one
\* callback is delivered and the invocation that delivers it is the last of
\* the chain: an invocation that scheduled a continuation delivered none, at
\* most one continuation is pending, and once a callback has been delivered
\* no continuation is pending, so no invocation runs after it.
C2_AtMostOneCallbackPerChain ==
    /\ Len(callbacks) <= 1
    /\ Len(queue) <= 1
    /\ (Invoked /\ last.scheduled # <<>>) => last.puts = <<>>
    /\ callbacks # <<>> => (queue = <<>> /\ last.puts = callbacks)

\* A chain of at least two invocations has ended with its callback
C2_Witness ==
    /\ continued
    /\ Len(callbacks) = 1
    /\ queue = <<>>
    /\ last.outcome = "callback"

----------------------------------------------------------------------------
(* C3 *)

\* C3: the orchestrator is never left hanging: a chain of invocations ends
\* with a callback delivered.  When no continuation is pending any more,
\* nothing runs again, so by then the callback must have been delivered.
C3_ChainEndsWithCallback ==
    (Invoked /\ queue = <<>>) => Len(callbacks) >= 1


----------------------------------------------------------------------------
(* C4 *)

\* The fields the claims read of a request
Supplied(event, k) == k \in DOMAIN event

\* What the invocation adds to the envelope it received before it schedules
\* a continuation
AddedFields(event) ==
    {"EventStatus", "EventState", "CreationTime"}
    \cup (IF event.RequestType \in {"Update", "Delete"}
          THEN {"StackStatus", "StackStatusReason"} ELSE {})

\* The step is an invocation whose handler raised the Continuation Signal and
\* whose re-invocation call succeeded
ContinuationStep ==
    /\ InvocationStep
    /\ last'.behaviour.kind = "raise_timeout"
    /\ last'.scheduled # <<>>

\* The continuation delivers no callback and schedules exactly one payload:
\* the envelope received, EventStatus "Poll", the CreationTime this invocation
\* used, every other field of the request carried forward.
ContinuationEnvelope ==
    /\ last'.puts = <<>>
    /\ callbacks' = callbacks
    /\ Len(queue') = 1
    /\ DOMAIN queue'[1] = DOMAIN Head(queue) \cup AddedFields(Head(queue))
    /\ queue'[1].EventStatus = "Poll"
    /\ queue'[1].CreationTime = last'.created
    /\ \A k \in DOMAIN Head(queue) \ AddedFields(Head(queue)) :
            queue'[1][k] = Head(queue)[k]

\* C4 as stated: when the handler raises the Continuation Signal with state s
\* and the re-invocation succeeds, no callback is delivered and exactly one
\* re-invocation is scheduled, whose payload is the current envelope with
\* EventStatus = "Poll", EventState = s and CreationTime unchanged.
C4_PayloadCarriesStateItself ==
    [][ContinuationStep =>
            /\ ContinuationEnvelope
            /\ queue'[1].EventState = last'.behaviour.state]_vars

\* C4, amended: as above, with EventState the state s as JSON carries it: s
\* itself when s is made of JSON values (a mapping of numbers and strings),
\* the ISO text of s when s is a date.
C4_PayloadCarriesStateAsJson ==
    [][ContinuationStep =>
            /\ ContinuationEnvelope
            /\ LET s == last'.behaviour.state
               IN  queue'[1].EventState =
                       IF s.type = "datetime" THEN PyStr(s.iso) ELSE s]_vars

\* A continuation carrying a date has been scheduled
C4_Witness ==
    /\ last.outcome = "continued"
    /\ last.behaviour.state = PyDatetime("2020-01-01T00:00:00")
    /\ Len(queue) = 1
    /\ queue[1].EventStatus = "Poll"
    /\ queue[1].EventState = PyStr("2020-01-01T00:00:00")
    /\ callbacks = <<>>

----------------------------------------------------------------------------
(* C5 *)

TimeoutReason(seconds) ==
    "The custom resource operation failed to complete within the user specified timeout of "
    \o ToString(seconds) \o " seconds"

\* C5: for a request with CreationTime = T and Timeout = S, S nonzero, the
\* deadline is exceeded exactly when the current time is greater than T + S;
\* then the handler is not invoked and the delivered response is FAILED with
\* a Reason citing S; otherwise (also at exactly T + S) the handler is invoked.
C5_DeadlineIsCreationTimePlusTimeout ==
    [][(/\ InvocationStep
        /\ Supplied(Head(queue), "CreationTime")
        /\ Supplied(Head(queue), "Timeout")
        /\ Head(queue).Timeout # 0) =>
            LET T == Head(queue).CreationTime
                S == Head(queue).Timeout
            IN  IF now > T + S
                THEN /\ last'.calls = 0
                     /\ Len(last'.puts) = 1
                     /\ last'.puts[1].data.Status = FAILED
                     /\ last'.puts[1].data.Reason = TimeoutReason(S)
                ELSE last'.calls = 1]_vars

----------------------------------------------------------------------------
(* C6 *)

\* C6: a request whose Timeout is zero disables the deadline check: whatever
\* the CreationTime and the current time, the deadline-exceeded failure is not
\* produced and the handler is invoked.
C6_ZeroTimeoutDisablesDeadline ==
    [][(/\ InvocationStep
        /\ Supplied(Head(queue), "Timeout")
        /\ Head(queue).Timeout = 0) =>
            /\ ~last'.expired
            /\ last'.calls = 1]_vars

----------------------------------------------------------------------------
(* C7 *)

NoHandlerReason(event) == "No handler defined for request type " \o event.RequestType

\* The response of a single callback of this step is FAILED with this reason
FailsWith(trace, reason) ==
    /\ Len(trace.puts) = 1
    /\ trace.puts[1].url = ResponseURL
    /\ trace.puts[1].data.Status = FAILED
    /\ "Reason" \in DOMAIN trace.puts[1].data
    /\ trace.puts[1].data.Reason = reason

\* C7 as stated, for the requests that carry no EventStatus: every request
\* whose RequestType has no registered handler, dispatched through Handler,
\* gets a callback with Status FAILED and the Reason "No handler defined for
\* request type {kind}".
C7_MissingHandlerAlwaysNamed ==
    [][(/\ InvocationStep
        /\ entry = "Handler"
        /\ ~Supplied(Head(queue), "EventStatus")
        /\ Head(queue).RequestType \notin handlers) =>
            FailsWith(last', NoHandlerReason(Head(queue)))]_vars

\* Handler finds no registered function for the request: the request carries
\* no EventStatus and its RequestType is not registered, or it is a Poll
\* request and no Poll function is registered.
Unrouted(event) ==
    \/ /\ ~Supplied(event, "EventStatus") \/ event.EventStatus = ""
       /\ event.RequestType \notin handlers
    \/ /\ Supplied(event, "EventStatus") /\ event.EventStatus = "Poll"
       /\ "Poll" \notin handlers

\* C7, amended: such a request goes through the lifecycle pipeline and ends
\* in one callback with Status FAILED; the Reason is "No handler defined for
\* request type {RequestType}" unless the soft deadline is exceeded, and then
\* it is the deadline-exceeded reason.
C7_MissingHandlerFails ==
    [][(/\ InvocationStep
        /\ entry = "Handler"
        /\ Unrouted(Head(queue))) =>
            /\ last'.func = "empty"
            /\ FailsWith(last', IF last'.expired THEN TimeoutReason(last'.timeout)
                                ELSE NoHandlerReason(Head(queue)))]_vars

\* A Delete request with no delete handler has been answered
C7_Witness ==
    /\ entry = "Handler"
    /\ "Delete" \notin handlers
    /\ last.func = "empty"
    /\ ~last.expired
    /\ last.calls = 1
    /\ Len(callbacks) = 1
    /\ callbacks[1].data.Status = FAILED
    /\ callbacks[1].data.Reason = "No handler defined for request type Delete"

----------------------------------------------------------------------------
(* C8 *)

\* C8: Handler routes a request to the Poll handler if and only if its
\* EventStatus is "Poll"; every other request, EventStatus absent or any
\* other value, goes to the handler registered for its RequestType.  The
\* function that runs is the one registered for that kind, or the empty one
\* when none is.
C8_RoutesByPollMarkerElseRequestType ==
    [][(InvocationStep /\ entry = "Handler") =>
            LET event == Head(queue)
                kind == IF Supplied(event, "EventStatus") /\ event.EventStatus = "Poll"
                        THEN "Poll" ELSE event.RequestType
            IN  last'.func = IF kind \in handlers THEN kind ELSE "empty"]_vars

----------------------------------------------------------------------------
(* C9 *)

TransientFields ==
    {"ResourceProperties", "OldResourceProperties", "ServiceToken", "ResponseURL",
     "RequestType", "CreationTime", "ResourceType", "StackStatus", "StackStatusReason"}

\* C9: none of the transient fields appears in a delivered response envelope,
\* whatever the request, base_response and the handler's result contain.
C9_NoTransientFieldDelivered ==
    \A response \in Delivered : DOMAIN response \cap TransientFields = {}

\* A response has been delivered for a handler that returned the request
\* envelope itself, under a base_response that holds a transient field
C9_Witness ==
    /\ last.behaviour.kind = "return_event"
    /\ last.outcome = "callback"
    /\ DOMAIN base_response \cap TransientFields # {}
    /\ Len(callbacks) = 1

----------------------------------------------------------------------------
(* C10 *)

CanonicalFields ==
    {"StackId", "RequestId", "LogicalResourceId", "PhysicalResourceId",
     "Status", "Reason", "Data"}

\* C10: every delivered response envelope contains only the canonical
\* response fields; Timeout, EventStatus and EventState of the request never
\* appear in it, even when the handler's result contains them.
C10_OnlyCanonicalFieldsDelivered ==
    \A response \in Delivered : DOMAIN response \subseteq CanonicalFields

----------------------------------------------------------------------------
(* C11 *)

Mask == PyStr("*******")

\* C11: when the handler's result has a Data mapping, the invocation logs one
\* response line and transmits one body to ResponseURL; for every key of Data
\* named in the configured secure attributes the log line shows the mask and
\* not the real value, while the transmitted body holds the real value; every
\* other key, and every other field of the response, is the same in the log
\* line and in the body; the body's Data is the handler's Data, unaltered by
\* the redaction.
C11_LogMaskedBodyUnmasked ==
    (/\ Invoked
     /\ last.behaviour.kind = "return"
     /\ Supplied(last.behaviour.value, "Data")
     /\ last.behaviour.value.Data.type = "dict") =>
        /\ Len(last.logged) = 1
        /\ Len(last.puts) = 1
        /\ LET data == last.behaviour.value.Data.items
               logged == last.logged[1]
               sent == last.puts[1].data
           IN  /\ last.puts[1].url = ResponseURL
               /\ sent.Data = JsonValue(PyDict(data))
               /\ DOMAIN logged = DOMAIN sent
               /\ DOMAIN logged.Data.items = DOMAIN data
               /\ \A k \in DOMAIN sent \ {"Data"} : logged[k] = sent[k]
               /\ \A k \in DOMAIN data :
                    IF k \in secure_attributes
                    THEN /\ logged.Data.items[k] = Mask
                         /\ logged.Data.items[k] # JsonValue(data[k])
                         /\ sent.Data.items[k] = JsonValue(data[k])
                    ELSE logged.Data.items[k] = sent.Data.items[k]

\* The handler returned a password and a name, with password a secure
\* attribute: the line logged masks the password, the body sent holds it
C11_Witness ==
    /\ last.behaviour.kind = "return"
    /\ Supplied(last.behaviour.value, "Data")
    /\ last.behaviour.value.Data = PyDict([password |-> PyStr("x"), name |-> PyStr("y")])
    /\ "password" \in secure_attributes
    /\ "name" \notin secure_attributes
    /\ Len(last.logged) = 1
    /\ last.logged[1].Data.items.password = Mask
    /\ last.logged[1].Data.items.name = PyStr("y")
    /\ Len(callbacks) = 1
    /\ callbacks[1].data.Data.items.password = PyStr("x")

----------------------------------------------------------------------------
(* C12 *)

\* The identifier the response starts with: the request's when it has one,
\* the one derived from StackId and LogicalResourceId otherwise
ExpectedPhysicalId(event) ==
    IF Supplied(event, "PhysicalResourceId") /\ event.PhysicalResourceId # ""
    THEN event.PhysicalResourceId
    ELSE physical_resource_id(event.StackId, event.LogicalResourceId)

\* The response to a request before the handler's output is merged: the base
\* envelope overlaid by base_response
ExpectedBase(event) ==
    base_response @@
    [StackId |-> event.StackId, RequestId |-> event.RequestId,
     LogicalResourceId |-> event.LogicalResourceId, Status |-> SUCCESS,
     PhysicalResourceId |-> ExpectedPhysicalId(event)]

WithoutTransient(response) ==
    [k \in DOMAIN response \ TransientFields |-> response[k]]

\* The handler failed with an error that is not the Continuation Signal: it
\* raised, or it returned what cannot be merged into the response
HandlerErrorKinds == {"raise_error", "return_none", "return_pairs"}

GenericReason == "Exception was raised while handling custom resource"

\* C12: when the handler fails with an error other than the Continuation
\* Signal, the invocation delivers exactly one callback and schedules no
\* continuation; the response is the base response with Status FAILED and the
\* fixed Reason, so it is the same for every such error.
C12_HandlerErrorGivesGenericFailure ==
    [][(InvocationStep /\ last'.behaviour.kind \in HandlerErrorKinds) =>
            /\ FailsWith(last', GenericReason)
            /\ last'.scheduled = <<>>
            /\ queue' = Tail(queue)
            /\ callbacks' = callbacks \o last'.puts
            /\ last'.puts[1].data =
                    WithoutTransient([Status |-> FAILED, Reason |-> GenericReason]
                                     @@ ExpectedBase(Head(queue)))]_vars

----------------------------------------------------------------------------
(* C13 *)

InvokeFailedReason ==
    "Failed to invoke new Lambda function after maximum Lambda execution timeout"

\* The result of the step shows that the handler raised the Continuation
\* Signal and that the re-invocation call failed: nothing was scheduled
ContinuationFailedStep ==
    /\ InvocationStep
    /\ last'.behaviour.kind = "raise_timeout"
    /\ last'.scheduled = <<>>

\* C13: when the handler raises the Continuation Signal and the re-invocation
\* call fails, this same invocation delivers exactly one callback with Status
\* FAILED and the Reason "Failed to invoke new Lambda function after maximum
\* Lambda execution timeout"; it does not return silently and it leaves no
\* continuation scheduled.
C13_FailedReinvocationIsReported ==
    [][ContinuationFailedStep =>
            /\ last'.outcome = "callback"
            /\ FailsWith(last', InvokeFailedReason)
            /\ callbacks' = callbacks \o last'.puts
            /\ queue' = Tail(queue)
            /\ queue' = <<>>]_vars

\* The re-invocation of a continuation failed and the failure was reported
C13_Witness ==
    /\ last.behaviour.kind = "raise_timeout"
    /\ last.scheduled = <<>>
    /\ queue = <<>>
    /\ Len(callbacks) = 1
    /\ callbacks[1].data.Status = FAILED
    /\ callbacks[1].data.Reason = InvokeFailedReason

----------------------------------------------------------------------------
(* C14 *)

\* The function the entry point hands the event to
FuncFor(event) ==
    IF entry = "Handler" THEN Lookup(handlers, Resolve(event)) ELSE "func"

\* The invocation of this step, had describe_stacks ended as ds: the same
\* request at the same time, the handler behaving as it did, the re-invocation
\* and the PUT ending as they did
SameStepWith(ds) ==
    LET func == FuncFor(Head(queue))
    IN  decorator(func, base_response,
                  IF entry = "Handler" THEN SecureOf(func, secure_attributes)
                  ELSE secure_attributes,
                  Head(queue), now, ds, last'.behaviour, last'.scheduled # <<>>,
                  IF last'.puts # <<>> THEN last'.puts[1].result ELSE "ok")

StatusDelivered(trace) ==
    IF trace.puts # <<>> THEN trace.puts[1].data.Status ELSE "none"

Enriched == {"Update", "Delete"}

\* What the claim compares of two invocations: whether and how the handler
\* was invoked, how the invocation ended, the Status it delivered
Conduct(trace) ==
    [calls |-> trace.calls, expired |-> trace.expired,
     behaviour |-> trace.behaviour, outcome |-> trace.outcome,
     continuations |-> Len(trace.scheduled), status |-> StatusDelivered(trace)]

StackFields == {"StackStatus", "StackStatusReason"}

\* C14: the stack status is looked up for Update and Delete requests only.
\* When the lookup fails the handler's event has StackStatus and
\* StackStatusReason UNKNOWN (and so has the payload of a continuation it asks
\* for), and whatever the lookup's outcome the handler is invoked in the same
\* way, the invocation ends in the same way and the Status delivered is the
\* same.  A Create request gets no StackStatus field and its invocation does
\* not depend on the lookup at all.
C14_EnrichmentIsBestEffort ==
    [][InvocationStep =>
        LET event == Head(queue)
        IN  IF event.RequestType \in Enriched
            THEN \A ds \in DescribeOutcomes :
                    \A seen \in {HandlerEvent(event, now, ds)},
                       other \in {SameStepWith(ds)} :
                        /\ StackFields \subseteq DOMAIN seen
                        /\ ~ds.ok => /\ seen.StackStatus = "UNKNOWN"
                                     /\ seen.StackStatusReason = "UNKNOWN"
                        /\ Conduct(other) = Conduct(last')
                        /\ other.scheduled # <<>> =>
                                \A k \in StackFields : other.scheduled[1][k] = seen[k]
            ELSE \A ds \in DescribeOutcomes :
                    /\ DOMAIN HandlerEvent(event, now, ds) \cap StackFields = {}
                    /\ last' = SameStepWith(ds)]_vars

\* An Update or Delete request whose stack status lookup failed was handed to
\* the handler, which asked for a continuation: the event it saw, carried in
\* the continuation's payload, has both fields UNKNOWN
C14_Witness ==
    /\ last.outcome = "continued"
    /\ last.calls = 1
    /\ Len(queue) = 1
    /\ queue[1].RequestType \in Enriched
    /\ queue[1].StackStatus = "UNKNOWN"
    /\ queue[1].StackStatusReason = "UNKNOWN"

----------------------------------------------------------------------------
(* C15 *)

\* The handler's output holds a PhysicalResourceId of its own
HandlerSetsPhysicalId(trace) ==
    /\ trace.behaviour.kind = "return"
    /\ Supplied(trace.behaviour.value, "PhysicalResourceId")

\* Every delivered response contains a PhysicalResourceId; the response of
\* this step, unless exempt, holds the request's PhysicalResourceId verbatim
\* when the request supplies one and otherwise the identifier derived from
\* the pair (StackId, LogicalResourceId); a continuation carries StackId,
\* LogicalResourceId and a supplied PhysicalResourceId forward unchanged, so
\* every invocation of a chain resolves the same identifier.
PhysicalIdResolved(exempt) ==
    LET event == Head(queue)
    IN  /\ \A i \in 1..Len(callbacks') :
                /\ Supplied(callbacks'[i].data, "PhysicalResourceId")
                /\ callbacks'[i].data.PhysicalResourceId # ""
        /\ (last'.puts # <<>> /\ ~exempt) =>
                last'.puts[1].data.PhysicalResourceId =
                    IF Supplied(event, "PhysicalResourceId")
                    THEN event.PhysicalResourceId
                    ELSE physical_resource_id(event.StackId, event.LogicalResourceId)
        /\ last'.scheduled # <<>> =>
                /\ queue'[1].StackId = event.StackId
                /\ queue'[1].LogicalResourceId = event.LogicalResourceId
                /\ Supplied(queue'[1], "PhysicalResourceId")
                        = Supplied(event, "PhysicalResourceId")
                /\ ExpectedPhysicalId(queue'[1]) = ExpectedPhysicalId(event)

\* C15 as stated: every delivered response contains a PhysicalResourceId, and
\* before the handler's output is merged (so in every response whose handler
\* set none) it is the request's when the request supplies one and the
\* derived one otherwise, the same for every invocation of a chain.
C15_PhysicalIdSuppliedOrDerived ==
    [][InvocationStep => PhysicalIdResolved(HandlerSetsPhysicalId(last'))]_vars

\* C15, amended: as above, before base_response and the handler's output are
\* merged: a PhysicalResourceId in base_response replaces the resolved one,
\* and one in the handler's output replaces both.
C15_PhysicalIdResolvedBeforeMerges ==
    [][InvocationStep =>
        /\ PhysicalIdResolved(\/ HandlerSetsPhysicalId(last')
                              \/ Supplied(base_response, "PhysicalResourceId"))
        /\ (/\ last'.puts # <<>>
            /\ ~HandlerSetsPhysicalId(last')
            /\ last'.behaviour.kind # "return_event"
            /\ Supplied(base_response, "PhysicalResourceId")) =>
                last'.puts[1].data.PhysicalResourceId
                    = base_response.PhysicalResourceId]_vars

\* A Create request without a PhysicalResourceId went through a continuation
\* and the invocation that ended the chain delivered the derived identifier
C15_Witness ==
    /\ continued
    /\ queue = <<>>
    /\ last.outcome = "callback"
    /\ ~HandlerSetsPhysicalId(last)
    /\ Len(callbacks) = 1
    /\ callbacks[1].data.PhysicalResourceId = physical_resource_id("stack", "res")

----------------------------------------------------------------------------
(* C16 *)

\* C16: physical_resource_id is deterministic and collision-free over pairs:
\* the same pair (stack id, logical resource id) always yields the same
\* identifier, and two different pairs never yield the same identifier (the
\* digest yields the same value only for the same input string).
C16_DeriveDeterministicAndInjective ==
    \A x, y \in derived :
        /\ (x.stack_id = y.stack_id /\ x.resource_id = y.resource_id) => x.id = y.id
        /\ x.id = y.id => (x.stack_id = y.stack_id /\ x.resource_id = y.resource_id)

----------------------------------------------------------------------------
(* C17 *)

\* The invocation of this step, had describe_stacks ended as ds and the PUT
\* as put
SameStep(ds, put) ==
    LET func == FuncFor(Head(queue))
    IN  decorator(func, base_response,
                  IF entry = "Handler" THEN SecureOf(func, secure_attributes)
                  ELSE secure_attributes,
                  Head(queue), now, ds, last'.behaviour, last'.scheduled # <<>>, put)

PutFailures == {"http_error", "unreachable"}

\* C17: an invocation that reaches the callback makes exactly one PUT, to
\* ResponseURL, and completes normally whatever the PUT's outcome: nothing
\* is retried, no continuation is scheduled, and the invocation is, but for
\* the PUT's result, the one it would have been with any other outcome of
\* the PUT: the same response with the same Status, the same log line.
C17_OnePutNeverRaises ==
    [][InvocationStep =>
        /\ Len(last'.puts) <= 1
        /\ callbacks' = callbacks \o last'.puts
        /\ last'.outcome = "callback" => Len(last'.puts) = 1
        /\ last'.puts # <<>> =>
            /\ last'.outcome = "callback"
            /\ last'.puts[1].url = ResponseURL
            /\ last'.scheduled = <<>>
            /\ queue' = Tail(queue)
            /\ \A put \in PutOutcomes :
                \E other \in {SameStep(ds, put) : ds \in DescribeOutcomesFor(Head(queue))} :
                    other = [last' EXCEPT !.puts =
                                <<[last'.puts[1] EXCEPT !.result = put]>>]]_vars

\* The one PUT of an invocation failed and the chain is over, the response
\* still reporting the handler's success
C17_Witness ==
    /\ last.outcome = "callback"
    /\ Len(last.puts) = 1
    /\ last.puts[1].result \in PutFailures
    /\ last.puts[1].data.Status = SUCCESS
    /\ callbacks = last.puts
    /\ queue = <<>>

----------------------------------------------------------------------------
(* C18 *)

\* The handler returned normally
ReturnKinds == {"return", "return_event"}

\* What the handler returned in this step: the value the behaviour names, or
\* the event it was called with
ReturnedValues ==
    IF last'.behaviour.kind = "return" THEN {last'.behaviour.value}
    ELSE {HandlerEvent(Head(queue), now, ds) : ds \in DescribeOutcomesFor(Head(queue))}

\* C18: when the handler returns normally, the delivered response is the base
\* envelope (StackId, RequestId, LogicalResourceId of the request, Status
\* SUCCESS, the resolved PhysicalResourceId) overlaid by base_response,
\* overlaid by the handler's returned fields, without the stripped fields,
\* as JSON renders it: a field the handler returned has the handler's value,
\* every other field has its base value.
C18_HandlerOverBaseOverEnvelope ==
    [][(/\ InvocationStep
        /\ last'.behaviour.kind \in ReturnKinds
        /\ last'.puts # <<>>) =>
            \E returned \in ReturnedValues :
                LET base == ExpectedBase(Head(queue))
                    sent == last'.puts[1].data
                IN  /\ DOMAIN sent = (DOMAIN base \cup DOMAIN returned) \ TransientFields
                    /\ \A k \in DOMAIN sent :
                            sent[k] = IF k \in DOMAIN returned
                                      THEN JsonDumps(returned)[k]
                                      ELSE base[k]]_vars

\* The handler returned a Status, a Reason and a PhysicalResourceId under a
\* base_response that holds all three: the response delivered has the
\* handler's values, and the envelope's StackId
C18_Witness ==
    /\ last.behaviour.kind = "return"
    /\ Supplied(last.behaviour.value, "PhysicalResourceId")
    /\ {"Status", "Reason", "PhysicalResourceId"} \subseteq DOMAIN base_response
    /\ Len(callbacks) = 1
    /\ callbacks[1].data.PhysicalResourceId = last.behaviour.value.PhysicalResourceId
    /\ callbacks[1].data.PhysicalResourceId # base_response.PhysicalResourceId
    /\ callbacks[1].data.Reason = last.behaviour.value.Reason
    /\ callbacks[1].data.Reason # base_response.Reason
    /\ callbacks[1].data.StackId = "stack"

----------------------------------------------------------------------------
(* C19 *)

\* C19: the invocation uses the CreationTime supplied on its request, or the
\* current time when none is supplied; the soft deadline is measured from
\* that value; a continuation carries that value, so the next invocation of
\* the chain is supplied with it and uses it: the creation timestamp, once
\* set, is never overwritten.
C19_CreationTimeNeverOverwritten ==
    [][InvocationStep =>
        LET event == Head(queue)
        IN  /\ last'.created = IF Supplied(event, "CreationTime")
                               THEN event.CreationTime ELSE now
            /\ last'.expired = (now > last'.created + last'.timeout)
            /\ last'.scheduled # <<>> =>
                    /\ Supplied(queue'[1], "CreationTime")
                    /\ queue'[1].CreationTime = last'.created]_vars

----------------------------------------------------------------------------
(* C20 *)

\* The reasons the decorator gives for a failure of its own finding
FailureReasons(trace) ==
    {TimeoutReason(trace.timeout), GenericReason, InvokeFailedReason}

\* C20: the handler is invoked at most once in an invocation, and not at all
\* when the deadline is exceeded.  A response with Status SUCCESS is
\* delivered only by an invocation whose handler was invoked once and
\* returned normally; when the handler was not invoked, raised an error, or
\* raised the Continuation Signal and the re-invocation failed, the response
\* delivered has Status FAILED and a non-empty Reason, the decorator's own,
\* whatever Status and Reason base_response holds.
C20_SuccessOnlyAfterNormalReturn ==
    Invoked =>
        /\ last.calls \in {0, 1}
        /\ last.calls = 0 <=> last.expired
        /\ last.calls = 0 <=> last.behaviour.kind = "not_called"
        /\ last.puts # <<>> =>
            LET sent == last.puts[1].data
            IN  /\ sent.Status = SUCCESS =>
                    /\ last.calls = 1
                    /\ last.behaviour.kind \in ReturnKinds
                /\ last.behaviour.kind \notin ReturnKinds =>
                    /\ sent.Status = FAILED
                    /\ Supplied(sent, "Reason")
                    /\ sent.Reason # ""
                    /\ sent.Reason \in FailureReasons(last)

\* The deadline was exceeded under a base_response with a Reason of its own:
\* the handler was not invoked and the response is FAILED with the deadline's
\* reason
C20_Witness ==
    /\ last.calls = 0
    /\ last.expired
    /\ Supplied(base_response, "Reason")
    /\ Len(callbacks) = 1
    /\ callbacks[1].data.Status = FAILED
    /\ callbacks[1].data.Reason = TimeoutReason(last.timeout)
    /\ callbacks[1].data.Reason # base_response.Reason

============================================================================
